---------------------------- MODULE Spec2Model ----------------------------
(***************************************************************************)
(* Model of the ante token-tree lexer (src/src/main.rs).                   *)
(*                                                                         *)
(* The lexer is one parser-combinator expression.  Every combinator is an  *)
(* operator over (s, p): the source as a sequence of one-character strings *)
(* and a 1-based cursor.  A parser's outcome is a record                   *)
(*     [st |-> "ok" | "err" | "panic", pos |-> cursor after, val |-> out]  *)
(* "err" is an ordinary parse failure that an enclosing choice may recover *)
(* from by rewinding; "panic" is a Rust panic, which unwinds through every *)
(* enclosing combinator.  Spans are 0-based half-open <<start, end>>.      *)
(*                                                                         *)
(* The indentation grouper folds over the parsed lines; the model runs     *)
(* that loop one line per step, so its nesting stack is part of the state. *)
(*                                                                         *)
(* The combinators themselves (or, not, rewind, repeated, padded,          *)
(* take_until, text::ident, text::int, text::keyword, text::newline,       *)
(* text::semantic_indentation, map_with_span) belong to the chumsky 0.9    *)
(* library the file is written against; each is modelled by what that      *)
(* library does at the place main.rs calls it.                             *)
(***************************************************************************)
EXTENDS Integers, Sequences, FiniteSets, TLC

VARIABLES
    src,      \* the source text handed to lexer().parse
    pc,       \* "start" | "fold" | "done" | "panic"
    lines,    \* output of the `lines` parser: <<[indent, line, span], ...>>
    endpos,   \* cursor after the `lines` parser (checked by end())
    nesting,  \* the grouping loop's stack of open blocks
    k,        \* index of the next line the grouping loop handles
    result    \* what lexer().parse returns

vars == <<src, pc, lines, endpos, nesting, k, result>>

---------------------------------------------------------------------------
(* Parser outcomes                                                         *)

Ok(p, v) == [st |-> "ok", pos |-> p, val |-> v]
Err == [st |-> "err", pos |-> 0, val |-> <<>>]
Panic == [st |-> "panic", pos |-> 0, val |-> <<>>]

\* End of input, as seen by a one-character lookahead.
EOI == ""

At(s, p) == IF p >= 1 /\ p <= Len(s) THEN s[p] ELSE EOI

---------------------------------------------------------------------------
(* Character classes                                                       *)

Digits == {"0", "1", "2", "3", "4", "5", "6", "7", "8", "9"}

Letters ==
    {"a", "b", "c", "d", "e", "f", "g", "h", "i", "j", "k", "l", "m",
     "n", "o", "p", "q", "r", "s", "t", "u", "v", "w", "x", "y", "z",
     "A", "B", "C", "D", "E", "F", "G", "H", "I", "J", "K", "L", "M",
     "N", "O", "P", "Q", "R", "S", "T", "U", "V", "W", "X", "Y", "Z"}

IsInlineWs(c) == c \in {" ", "\t"}

\* Characters outside ASCII and the vertical tab have no one-character
\* string here; each is the element named by its code point.
VT == "U+000B"
NEL == "U+0085"
LineSeparator == "U+2028"
ParagraphSeparator == "U+2029"

\* the other characters with the Unicode White_Space property
OtherSpaces ==
    {"U+00A0", "U+1680", "U+2000", "U+2001", "U+2002", "U+2003", "U+2004",
     "U+2005", "U+2006", "U+2007", "U+2008", "U+2009", "U+200A", "U+202F",
     "U+205F", "U+3000"}

\* char::is_whitespace
IsWs(c) ==
    c \in {" ", "\t", "\n", VT, "\f", "\r", NEL, LineSeparator,
           ParagraphSeparator} \cup OtherSpaces

IsIdentStart(c) == c \in Letters \cup {"_"}

IsIdentCont(c) == c \in Letters \cup Digits \cup {"_"}

---------------------------------------------------------------------------
(* Generic combinators                                                     *)

\* a.or(b): ordered choice, b only after a failed.
Or(a, b) == IF a.st = "err" THEN b ELSE a

\* inner.not() started at p: fails when inner matched; when inner failed it
\* yields the next input character, so it fails at end of input.
Not(inner, s, p) ==
    CASE inner.st = "ok" -> Err
      [] inner.st = "panic" -> inner
      [] OTHER -> IF p <= Len(s) THEN Ok(p + 1, s[p]) ELSE Err

\* inner.rewind() started at p: the output of inner, the cursor put back.
Rewind(inner, p) == IF inner.st = "ok" THEN Ok(p, inner.val) ELSE inner

RECURSIVE SkipLineWs(_, _)
\* line_ws (.repeated()): cursor after the inline whitespace at p.
SkipLineWs(s, p) ==
    IF IsInlineWs(At(s, p)) THEN SkipLineWs(s, p + 1) ELSE p

RECURSIVE SkipWs(_, _)
\* the whitespace run consumed on each side by .padded()
SkipWs(s, p) == IF IsWs(At(s, p)) THEN SkipWs(s, p + 1) ELSE p

RECURSIVE SkipIdentCont(_, _)
SkipIdentCont(s, p) ==
    IF IsIdentCont(At(s, p)) THEN SkipIdentCont(s, p + 1) ELSE p

RECURSIVE SkipDigits(_, _)
SkipDigits(s, p) == IF At(s, p) \in Digits THEN SkipDigits(s, p + 1) ELSE p

\* text::newline(): "\r\n", "\n", or one of carriage return, vertical tab,
\* form feed, next line, line separator, paragraph separator
Newline(s, p) ==
    IF At(s, p) = "\r" /\ At(s, p + 1) = "\n" THEN Ok(p + 2, <<>>)
    ELSE IF At(s, p) \in {"\n", "\r", VT, "\f", NEL, LineSeparator,
                          ParagraphSeparator}
         THEN Ok(p + 1, <<>>)
    ELSE Err

\* text::ident(): an identifier-start character, then identifier characters.
TextIdent(s, p) ==
    IF IsIdentStart(At(s, p))
    THEN LET q == SkipIdentCont(s, p + 1) IN Ok(q, SubSeq(s, p, q - 1))
    ELSE Err

\* text::int(10): a non-zero digit followed by digits, or a single "0".
TextInt(s, p) ==
    IF At(s, p) \in Digits \ {"0"}
    THEN LET q == SkipDigits(s, p + 1) IN Ok(q, SubSeq(s, p, q - 1))
    ELSE IF At(s, p) = "0" THEN Ok(p + 1, <<"0">>)
    ELSE Err

KeywordIs(i, kw) ==
    IF i.st = "ok" /\ i.val = kw THEN Ok(i.pos, <<>>) ELSE Err

\* text::keyword(kw): a whole identifier equal to kw.
TextKeyword(s, p, kw) == KeywordIs(TextIdent(s, p), kw)

---------------------------------------------------------------------------
(* u64 values                                                              *)
(* A u64 is kept as three base-10^9 limbs <<high, middle, low>>, so that   *)
(* the values around 2^64 stay exact.                                      *)

DigitVal(c) ==
    CASE c = "0" -> 0 [] c = "1" -> 1 [] c = "2" -> 2 [] c = "3" -> 3
      [] c = "4" -> 4 [] c = "5" -> 5 [] c = "6" -> 6 [] c = "7" -> 7
      [] c = "8" -> 8 [] c = "9" -> 9

RECURSIVE Decimal(_)
\* the number written by at most nine digits
Decimal(ds) ==
    IF ds = <<>> THEN 0
    ELSE 10 * Decimal(SubSeq(ds, 1, Len(ds) - 1)) + DigitVal(ds[Len(ds)])

\* u64::MAX = 18446744073709551615
U64Max == <<18, 446744073, 709551615>>

Limbs(ds) ==
    LET n == Len(ds)
    IN  <<Decimal(SubSeq(ds, 1, n - 18)),
          Decimal(SubSeq(ds, IF n > 18 THEN n - 17 ELSE 1, n - 9)),
          Decimal(SubSeq(ds, IF n > 9 THEN n - 8 ELSE 1, n))>>

LimbsLeq(a, b) ==
    \/ a[1] < b[1]
    \/ a[1] = b[1] /\ a[2] < b[2]
    \/ a[1] = b[1] /\ a[2] = b[2] /\ a[3] <= b[3]

\* the u64 whose value is the small number n
U64(n) == <<0, 0, n>>

\* .from_str() at u64: Err on a digit run above u64::MAX.
FromStr(ds) ==
    IF Len(ds) <= 27 /\ LimbsLeq(Limbs(ds), U64Max)
    THEN [ok |-> TRUE, v |-> Limbs(ds)]
    ELSE [ok |-> FALSE, v |-> <<>>]

---------------------------------------------------------------------------
(* Tokens and token trees                                                  *)

TokIdent(name) == [t |-> "Ident", s |-> name]
TokStringLiteral(text) == [t |-> "StringLiteral", s |-> text]
TokInt(v, kind) == [t |-> "Int", v |-> v, k |-> kind]
TokOperator(op) == [t |-> "Operator", op |-> op]
TokComment == [t |-> "Comment"]
Tree(delim, kids) == [t |-> "Tree", d |-> delim, kids |-> kids]
Spanned(x, from, to) == [tt |-> x, span |-> <<from, to>>]

\* The suffix list of `int`, in the order the alternatives are tried.
IntegerKinds ==
    << [kw |-> <<"i", "8">>, kind |-> "I8"],
       [kw |-> <<"i", "1", "6">>, kind |-> "I16"],
       [kw |-> <<"i", "3", "2">>, kind |-> "I32"],
       [kw |-> <<"i", "6", "4">>, kind |-> "I64"],
       [kw |-> <<"i", "s", "z">>, kind |-> "Isz"],
       [kw |-> <<"u", "8">>, kind |-> "U8"],
       [kw |-> <<"u", "1", "6">>, kind |-> "U16"],
       [kw |-> <<"u", "3", "2">>, kind |-> "U32"],
       [kw |-> <<"u", "6", "4">>, kind |-> "U64"],
       [kw |-> <<"u", "s", "z">>, kind |-> "Usz"] >>

---------------------------------------------------------------------------
(* Atomic scanners                                                         *)

\* operator: '+' | '=' | '.'
Operator(s, p) ==
    CASE At(s, p) = "+" -> Ok(p + 1, TokOperator("Add"))
      [] At(s, p) = "=" -> Ok(p + 1, TokOperator("Equals"))
      [] At(s, p) = "." -> Ok(p + 1, TokOperator("MemberAccess"))
      [] OTHER -> Err

IdentOf(i) == IF i.st = "ok" THEN Ok(i.pos, TokIdent(i.val)) ELSE Err

\* ident
Ident(s, p) == IdentOf(TextIdent(s, p))

RECURSIVE SuffixFrom(_, _, _)
RECURSIVE SuffixStep(_, _, _, _)
\* one suffix alternative: taken when its keyword matched
SuffixStep(s, p, i, m) ==
    IF m.st = "ok" THEN Ok(m.pos, IntegerKinds[i].kind)
    ELSE SuffixFrom(s, p, i + 1)

\* the suffix alternatives from the i-th on, then .or_not()
SuffixFrom(s, p, i) ==
    IF i > Len(IntegerKinds) THEN Ok(p, "None")
    ELSE SuffixStep(s, p, i, TextKeyword(s, p, IntegerKinds[i].kw))

\* .unwrapped() on the value, then the token with its suffix
IntWithValue(n, suffix) ==
    IF ~n.ok THEN Panic ELSE Ok(suffix.pos, TokInt(n.v, suffix.val))

IntAfterDigits(s, d) ==
    IF d.st # "ok" THEN Err
    ELSE IntWithValue(FromStr(d.val), SuffixFrom(s, d.pos, 1))

\* int: digits, .from_str().unwrapped() (a panic on Err), optional suffix
IntTok(s, p) == IntAfterDigits(s, TextInt(s, p))

\* single (line 120): int.or(ident)
Single(s, p) == Or(IntTok(s, p), Ident(s, p))

\* a.then_ignore(b.rewind()): a's output when the look ahead matched
ThenIgnore(t, ahead) == IF ahead.st = "ok" THEN t ELSE ahead

\* line_ws.at_least(1).then(single), the inline whitespace after p ending
\* at q
WsThenSingle(s, p, q) == IF q = p THEN Err ELSE Single(s, q)

SequentialFrom(s, t) ==
    IF t.st # "ok" THEN t
    ELSE ThenIgnore(t, Rewind(WsThenSingle(s, t.pos, SkipLineWs(s, t.pos)),
                              t.pos))

LastFrom(s, t) ==
    IF t.st # "ok" THEN t
    ELSE ThenIgnore(t, Rewind(Not(Single(s, SkipLineWs(s, t.pos)), s, t.pos),
                              t.pos))

\* sequential: a bare token with at least one inline blank and then another
\* bare token ahead (looked at, not consumed)
Sequential(s, p) == SequentialFrom(s, Single(s, p))

\* last: a bare token that line_ws.then(single) does not match after
Last(s, p) == LastFrom(s, Single(s, p))

\* single (line 134): sequential.or(last).or(operator)
SingleToken(s, p) == Or(Or(Sequential(s, p), Last(s, p)), Operator(s, p))

\* escape: a backslash and one of \ $ " n r t 0
Escape(s, p) ==
    IF At(s, p) # "\\" THEN Err
    ELSE CASE At(s, p + 1) = "\\" -> Ok(p + 2, "\\")
           [] At(s, p + 1) = "$" -> Ok(p + 2, "$")
           [] At(s, p + 1) = "\"" -> Ok(p + 2, "\"")
           [] At(s, p + 1) = "n" -> Ok(p + 2, "\n")
           [] At(s, p + 1) = "r" -> Ok(p + 2, "\r")
           [] At(s, p + 1) = "t" -> Ok(p + 2, "\t")
           [] At(s, p + 1) = "0" -> Ok(p + 2, "NUL")
           [] OTHER -> Err

\* one element of a literal run: a plain character, an escape, or a '$'
\* that no '{' follows
LiteralChar(s, p) ==
    Or(Or(IF p <= Len(s) /\ s[p] \notin {"\"", "\\", "$"}
          THEN Ok(p + 1, s[p]) ELSE Err,
          Escape(s, p)),
       IF At(s, p) # "$" THEN Err
       ELSE ThenIgnore(Ok(p + 1, "$"),
                       Rewind(Not(IF At(s, p + 1) = "{"
                                  THEN Ok(p + 2, "{") ELSE Err,
                                  s, p + 1),
                              p + 1)))

RECURSIVE LiteralRun(_, _, _)
RECURSIVE LiteralStep(_, _, _, _)
LiteralStep(s, p, acc, c) ==
    IF c.st = "ok" THEN LiteralRun(s, c.pos, Append(acc, c.val))
    ELSE Ok(p, acc)

\* .repeated() over the elements of a literal run
LiteralRun(s, p, acc) == LiteralStep(s, p, acc, LiteralChar(s, p))

LiteralOneOf(c, p) ==
    IF c.st = "ok"
    THEN Ok(c.pos, Spanned(TokStringLiteral(<<c.val>>), p - 1, c.pos - 1))
    ELSE Err

\* literal with its .repeated() forgotten: one element per fragment
LiteralOneChar(s, p) == LiteralOneOf(LiteralChar(s, p), p)

\* .at_least(1), .collect(), Token::StringLiteral and its span
LiteralOf(run, p) ==
    IF run.val = <<>> THEN Err
    ELSE Ok(run.pos, Spanned(TokStringLiteral(run.val), p - 1, run.pos - 1))

\* literal: at least one element, collected into one StringLiteral
Literal(s, p) == LiteralOf(LiteralRun(s, p, <<>>), p)

\* take_until(text::newline().rewind()): up to, not including, a newline
RECURSIVE UntilNewline(_, _)
UntilNewline(s, p) ==
    IF Rewind(Newline(s, p), p).st = "ok" THEN Ok(p, <<>>)
    ELSE IF p > Len(s) THEN Err
    ELSE UntilNewline(s, p + 1)

\* take_until(just("*/")): up to and including the first "*/"
RECURSIVE UntilCommentEnd(_, _)
UntilCommentEnd(s, p) ==
    IF At(s, p) = "*" /\ At(s, p + 1) = "/" THEN Ok(p + 2, <<>>)
    ELSE IF p > Len(s) THEN Err
    ELSE UntilCommentEnd(s, p + 1)

\* .ignored().to(Token::Comment)
CommentOf(u) == IF u.st = "ok" THEN Ok(u.pos, TokComment) ELSE Err

SingleLine(s, p) ==
    IF At(s, p) = "/" /\ At(s, p + 1) = "/"
    THEN CommentOf(UntilNewline(s, p + 2))
    ELSE Err

MultiLine(s, p) ==
    IF At(s, p) = "/" /\ At(s, p + 1) = "*"
    THEN CommentOf(UntilCommentEnd(s, p + 2))
    ELSE Err

\* comment
Comment(s, p) == Or(SingleLine(s, p), MultiLine(s, p))

---------------------------------------------------------------------------
(* The recursive token-tree grammar                                        *)

RECURSIVE Tt(_, _)
RECURSIVE PaddedTts(_, _, _)
RECURSIVE StringParts(_, _, _)
RECURSIVE PaddedStep(_, _, _, _)
RECURSIVE StringStep(_, _, _, _)

\* one iteration of tt.padded().repeated(), t being what tt gave
PaddedStep(s, p, acc, t) ==
    CASE t.st = "ok" -> PaddedTts(s, SkipWs(s, t.pos), Append(acc, t.val))
      [] t.st = "panic" -> t
      [] OTHER -> Ok(p, acc)

\* tt.padded().repeated(): an iteration that fails gives back the
\* whitespace it had skipped, so the cursor stays where the last
\* successful iteration (with its trailing whitespace) left it
PaddedTts(s, p, acc) == PaddedStep(s, p, acc, Tt(s, SkipWs(s, p)))

\* the closing ')' and Tree(Parenthesis, ..)
TokenTreeClose(s, body) ==
    IF body.st # "ok" THEN body
    ELSE IF At(s, body.pos) = ")"
         THEN Ok(body.pos + 1, Tree("Parenthesis", body.val))
         ELSE Err

\* token_tree: '(' tt.padded().repeated() ')'
TokenTree(s, p) ==
    IF At(s, p) # "(" THEN Err
    ELSE TokenTreeClose(s, PaddedTts(s, p + 1, <<>>))

\* the closing '}' and the spanned Tree(delim, ..) of a splice opened at p
InterpolationClose(s, p, body, delim) ==
    IF body.st # "ok" THEN body
    ELSE IF At(s, body.pos) = "}"
         THEN Ok(body.pos + 1, Spanned(Tree(delim, body.val), p - 1, body.pos))
         ELSE Err

\* interpolation built with token_tree's delimiter kind
InterpolationAsGroup(s, p) ==
    IF ~(At(s, p) = "$" /\ At(s, p + 1) = "{") THEN Err
    ELSE InterpolationClose(s, p, PaddedTts(s, p + 2, <<>>), "Parenthesis")

\* interpolation: "${" tt.padded().repeated() '}'
Interpolation(s, p) ==
    IF ~(At(s, p) = "$" /\ At(s, p + 1) = "{") THEN Err
    ELSE InterpolationClose(s, p, PaddedTts(s, p + 2, <<>>), "Curly")

\* one iteration of interpolation.or(literal).repeated()
StringStep(s, p, acc, part) ==
    CASE part.st = "ok" -> StringParts(s, part.pos, Append(acc, part.val))
      [] part.st = "panic" -> part
      [] OTHER -> Ok(p, acc)

\* interpolation.or(literal).repeated()
StringParts(s, p, acc) ==
    StringStep(s, p, acc, Or(Interpolation(s, p), Literal(s, p)))

\* the closing '"' and Tree(Interpolation, ..)
StringClose(s, parts) ==
    IF parts.st # "ok" THEN parts
    ELSE IF At(s, parts.pos) = "\""
         THEN Ok(parts.pos + 1, Tree("Interpolation", parts.val))
         ELSE Err

\* string: '"' parts '"'
String(s, p) ==
    IF At(s, p) # "\"" THEN Err
    ELSE StringClose(s, StringParts(s, p + 1, <<>>))

\* .map_with_span(|tt, span| (tt, span)) of a parser started at p
WithSpan(t, p) ==
    IF t.st = "ok" THEN Ok(t.pos, Spanned(t.val, p - 1, t.pos - 1)) ELSE t

\* tt: single.or(string).or(token_tree).or(comment), with its span
Tt(s, p) ==
    WithSpan(Or(Or(Or(SingleToken(s, p), String(s, p)), TokenTree(s, p)),
                Comment(s, p)),
             p)

---------------------------------------------------------------------------
(* text::semantic_indentation: the line parser                             *)

RECURSIVE LineTokens(_, _, _)
RECURSIVE LineStep(_, _, _, _)
\* one iteration of the line's .repeated(), t being what the token gave
LineStep(s, p, acc, t) ==
    CASE t.st = "ok" -> LineTokens(s, SkipLineWs(s, t.pos), Append(acc, t.val))
      [] t.st = "panic" -> t
      [] OTHER -> Ok(p, acc)

\* line: token.padded_by(line_ws.ignored().repeated()).repeated()
LineTokens(s, p, acc) == LineStep(s, p, acc, Tt(s, SkipLineWs(s, p)))

\* the element made of the indentation p..q-1 and the line's tokens
LineOf(s, p, q, toks) ==
    IF toks.st # "ok" THEN toks
    ELSE Ok(toks.pos,
            [indent |-> SubSeq(s, p, q - 1),
             line |-> toks.val,
             span |-> IF toks.pos = q THEN <<q - 1, q>>
                      ELSE <<q - 1, toks.pos - 1>>])

LineFrom(s, p, q) == LineOf(s, p, q, LineTokens(s, q, <<>>))

\* One element of `lines`: the indentation, then the line with its span.
\* A line that consumed nothing still gets the one-position span at its
\* cursor.
Line(s, p) == LineFrom(s, p, SkipLineWs(s, p))

RECURSIVE MoreLines(_, _, _)
RECURSIVE AfterNewline(_, _, _, _)
RECURSIVE AfterLine(_, _, _)
AfterLine(s, acc, l) ==
    IF l.st # "ok" THEN l ELSE MoreLines(s, l.pos, Append(acc, l.val))

AfterNewline(s, p, acc, nl) ==
    IF nl.st # "ok" THEN Ok(p, acc) ELSE AfterLine(s, acc, Line(s, nl.pos))

\* the tail of .separated_by(newline()): newline, element, ...
MoreLines(s, p, acc) == AfterNewline(s, p, acc, Newline(s, p))

\* the trailing whitespace of .padded()
LinesEnd(s, all) ==
    IF all.st # "ok" THEN all ELSE Ok(SkipWs(s, all.pos), all.val)

LinesFrom(s, first) ==
    IF first.st # "ok" THEN first
    ELSE LinesEnd(s, MoreLines(s, first.pos, <<first.val>>))

\* lines: elements separated by newlines, the whole .padded()
Lines(s) == LinesFrom(s, Line(s, SkipWs(s, 1)))

---------------------------------------------------------------------------
(* text::semantic_indentation: grouping the lines                          *)

\* make_group (the closure given by lexer): a Block with the span handed in
MakeGroup(tts, span) == Spanned(Tree("Block", tts), span[1], span[2])

IsPrefix(a, b) == Len(a) <= Len(b) /\ SubSeq(b, 1, Len(a)) = a

StripPrefix(a, b) == SubSeq(b, Len(a) + 1, Len(b))

RECURSIVE Matched(_, _, _)
\* the `while let` loop: how many stack entries' indentation the line's
\* indentation starts with, in order, and what is left of it
Matched(stack, indent, i) ==
    IF i + 1 <= Len(stack) /\ IsPrefix(stack[i + 1].indent, indent)
    THEN Matched(stack, StripPrefix(stack[i + 1].indent, indent), i + 1)
    ELSE [i |-> i, rest |-> indent]

RECURSIVE Collapse(_)
\* collapse: close the given stack entries innermost first, each becoming
\* the last child of the one below; the outcome is the outermost of them
Collapse(tree) ==
    IF tree = <<>> THEN <<>>
    ELSE LET n == Len(tree)
             tt == MakeGroup(tree[n].tts, tree[n].span)
         IN  IF n = 1 THEN <<tt>>
             ELSE Collapse([SubSeq(tree, 1, n - 1) EXCEPT
                              ![n - 1].tts = Append(@, tt)])

\* the body of the `for` loop, for one line
Group(stack, l) ==
    LET m == Matched(stack, l.indent, 0)
        closed == Collapse(SubSeq(stack, m.i + 1, Len(stack)))
        kept == SubSeq(stack, 1, m.i)
        pushed == [kept EXCEPT ![m.i].tts = @ \o closed]
    IN  IF m.rest # <<>>
        THEN Append(pushed,
                    [indent |-> m.rest, tts |-> l.line, span |-> l.span])
        ELSE [pushed EXCEPT ![m.i].tts = @ \o l.line]

\* what the grouping returns once every line is handled
Grouped(stack) == stack[1].tts

NoSpan == <<>>

---------------------------------------------------------------------------
(* lexer().parse as a state machine                                        *)

\* what the `lines` parser's outcome l leaves behind
LexOutcome(l) ==
    IF l.st = "panic"
    THEN /\ pc' = "panic"
         /\ UNCHANGED <<lines, endpos, nesting>>
    ELSE /\ pc' = "fold"
         /\ lines' = l.val
         /\ endpos' = l.pos
         /\ nesting' = <<[indent |-> <<>>, tts |-> <<>>, span |-> NoSpan]>>

\* Lex: the `lines` parser runs over the whole source.
Lex ==
    /\ pc = "start"
    /\ LexOutcome(Lines(src))
    /\ UNCHANGED <<src, k, result>>

\* FoldLine: one iteration of the grouping loop.
FoldLine ==
    /\ pc = "fold"
    /\ k <= Len(lines)
    /\ nesting' = Group(nesting, lines[k])
    /\ k' = k + 1
    /\ UNCHANGED <<src, pc, lines, endpos, result>>

\* Finish: the grouping returns, then .then_ignore(end()) decides.
Finish ==
    /\ pc = "fold"
    /\ k > Len(lines)
    /\ result' = IF endpos = Len(src) + 1
                 THEN [ok |-> TRUE, tts |-> Grouped(nesting)]
                 ELSE [ok |-> FALSE, tts |-> <<>>]
    /\ pc' = "done"
    /\ UNCHANGED <<src, lines, endpos, nesting, k>>

Next == Lex \/ FoldLine \/ Finish

InitWith(inputs) ==
    /\ src \in inputs
    /\ pc = "start"
    /\ lines = <<>>
    /\ endpos = 0
    /\ nesting = <<>>
    /\ k = 1
    /\ result = [ok |-> FALSE, tts |-> <<>>]

---------------------------------------------------------------------------
(* Sources the lexer is run on                                             *)

\* every character sequence over `alphabet` of length at most n
Strs(alphabet, n) == UNION {[1..m -> alphabet] : m \in 0..n}

MaxIndentLen == 9
MaxTokLen == 5
MaxStrBody == 5

U64MaxDigits ==
    <<"1", "8", "4", "4", "6", "7", "4", "4", "0", "7",
      "3", "7", "0", "9", "5", "5", "1", "6", "1">>

\* Lines of identifiers at varying indentation.
IndentInputs ==
    Strs({"a", " ", "\n"}, MaxIndentLen)
    \cup {<<"a", "\n", " ", " ", "b", "\n", "c", "\n">>,
          <<"a", "\n", " ", " ", "b", "\n", "c">>,
          <<"a", "\n", " ", " ", "(", "b", ")">>}

\* Bare tokens, operators and groups on one or two lines, and the digit
\* runs around u64::MAX, alone or inside a group, a string or a comment.
TokInputs ==
    Strs({"a", "1", " ", "\n", "(", ")", "+"}, MaxTokLen)
    \cup {<<"1", "2", "3">>, <<"1", "2", "3", "\n">>,
          <<"1", "2", "3", "i", "8">>, <<"1", "2", "3", "i", "8", "\n">>,
          <<"1", "2", "3", "i", "8", "x">>,
          <<"1", "2", "3", "i", "8", "x", "\n">>,
          <<"1", "2", "3", "i", "8", " ", "x", "\n">>,
          <<"f", " ", "x">>, <<"f", " ", "x", "\n">>,
          <<"a", "\f">>, <<"\f", "a", "\n">>, <<"a", "\f", "b", "\n">>,
          <<"(", " ", "a", "\f", ")", "\n">>, <<"/", "/", "c", "\f">>,
          <<"a", VT, "b", NEL>>, <<"(", "U+00A0", "a", "U+3000", ")", "\n">>,
          <<"a", LineSeparator, " ", "b", " ", "\n">>,
          <<"a", ParagraphSeparator, " ", "b", " ">>}
    \cup {pre \o U64MaxDigits \o <<d>> \o post :
            pre \in {<<>>, <<"(">>, <<"\"">>, <<"\"", "$", "{">>,
                     <<"/", "/">>},
            d \in {"4", "5", "6", "9"},
            post \in {<<>>, <<"\n">>, <<"0", "\n">>, <<")", "\n">>,
                      <<"}", "\"", "\n">>, <<"\"", "\n">>}}

\* One string per source: a quote, a body, a quote and a newline.
StrInputs ==
    {<<"\"">> \o body \o <<"\"", "\n">> :
        body \in Strs({"a", "$", "{", "}", "\\", "\""}, MaxStrBody)}
    \cup {<<"\"", "a", "$", "{", "1", "+", "2", "}", "b", "\"">>,
          <<"\"", "a", "$", "{", "1", "+", "2", "}", "b", "\"", "\n">>,
          <<"\"", "\"">>,
          <<"\"", "a", "\\", "n", "$", "b", "$", "{", "}", "c", "\"", "\n">>,
          <<"\"", "$", "{", "(", "\"", "a", "\"", ")", "}", "$", "\"">>}

InitIndent == InitWith(IndentInputs)
InitTok == InitWith(TokInputs)
InitStr == InitWith(StrInputs)

SpecIndent == InitIndent /\ [][Next]_vars
SpecTok == InitTok /\ [][Next]_vars
SpecStr == InitStr /\ [][Next]_vars

Init == InitWith(IndentInputs \cup TokInputs \cup StrInputs)
Spec == Init /\ [][Next]_vars

---------------------------------------------------------------------------
(* Reading a returned tree                                                 *)

Done == pc = "done"
Accepted == pc = "done" /\ result.ok
Rejected == pc = "done" /\ ~result.ok

IsTree(n, delim) == n.tt.t = "Tree" /\ n.tt.d = delim
IsStringLiteral(n) == n.tt.t = "StringLiteral"

RECURSIVE AllNodes(_)
\* every spanned node of a forest, at any depth
AllNodes(tts) ==
    UNION {{tts[i]} \cup (IF tts[i].tt.t = "Tree"
                          THEN AllNodes(tts[i].tt.kids) ELSE {}) :
           i \in DOMAIN tts}

RECURSIVE Unblocked(_)
\* a forest with every Block replaced by its (unblocked) children: the
\* token trees as the token grammar produced them, in tree order
Unblocked(tts) ==
    IF tts = <<>> THEN <<>>
    ELSE LET rest == Unblocked(Tail(tts))
         IN  IF IsTree(Head(tts), "Block")
             THEN Unblocked(Head(tts).tt.kids) \o rest
             ELSE <<Head(tts)>> \o rest

RECURSIVE LineTokensOf(_, _, _)
\* the token trees lexed on lines from..to, in source order
LineTokensOf(ls, from, to) ==
    IF from > to THEN <<>>
    ELSE ls[from].line \o LineTokensOf(ls, from + 1, to)

RECURSIVE Bare(_)
\* a forest without its spans
Bare(tts) ==
    [i \in DOMAIN tts |->
        IF tts[i].tt.t = "Tree"
        THEN Tree(tts[i].tt.d, Bare(tts[i].tt.kids))
        ELSE tts[i].tt]

IndentOf(i) == Len(lines[i].indent)

---------------------------------------------------------------------------
(* Indentation grouping                                                    *)

ThreeLines == <<"a", "\n", " ", " ", "b", "\n", "c", "\n">>

\* lines that carry tokens and are indented deeper than the line before
DeeperLines ==
    {i \in 2..Len(lines) :
        lines[i].line # <<>> /\ IndentOf(i) > IndentOf(i - 1)}

\* the first line after i that is shallower than line i (one past the last
\* line when there is none)
FirstShallower(i) ==
    LET after == {j \in (i + 1)..Len(lines) : IndentOf(j) < IndentOf(i)}
    IN  IF after = {} THEN Len(lines) + 1
        ELSE CHOOSE j \in after : \A j2 \in after : j <= j2

\* C1: for every accepted source, a line indented deeper than its
\* predecessor opens a Block that starts with that line's tokens and holds
\* the tokens of every following line up to the first shallower one; the
\* three lines `a`, `  b`, `c` give a, Block[b], c.
C1_IndentationGrouping ==
    Done =>
      /\ src = ThreeLines =>
           /\ result.ok
           /\ Bare(result.tts) =
                <<TokIdent(<<"a">>), Tree("Block", <<TokIdent(<<"b">>)>>),
                  TokIdent(<<"c">>)>>
      /\ result.ok =>
           \A i \in DeeperLines :
             \E b \in AllNodes(result.tts) :
               /\ IsTree(b, "Block")
               /\ Len(b.tt.kids) >= Len(lines[i].line)
               /\ SubSeq(b.tt.kids, 1, Len(lines[i].line)) = lines[i].line
               /\ Unblocked(b.tt.kids) =
                    LineTokensOf(lines, i, FirstShallower(i) - 1)

\* a token-carrying line shallower than the token-carrying line before it,
\* at an indentation no earlier line had
FreshDedent ==
    \E i \in 2..Len(lines) :
        /\ lines[i].line # <<>> /\ lines[i - 1].line # <<>>
        /\ IndentOf(i) < IndentOf(i - 1)
        /\ \A j \in 1..(i - 1) : IndentOf(j) # IndentOf(i)

\* C2: a source with a dedent to an indentation level that never occurred
\* before is rejected: parse returns an error and no tree.
C2_FreshDedentRejected == (Done /\ FreshDedent) => ~result.ok

\* C9: for every accepted source, the token trees lexed on the lines are
\* exactly the token trees of the returned tree, once each, in source order.
C9_NoTokenDropped ==
    Accepted => Unblocked(result.tts) = LineTokensOf(lines, 1, Len(lines))

\* C10: in every returned tree each span lies within the source and a
\* Tree node's span covers the spans of all its children.
C10_SpanContainment ==
    Accepted =>
      \A n \in AllNodes(result.tts) :
        /\ 0 <= n.span[1] /\ n.span[1] <= n.span[2]
        /\ n.span[2] <= Len(src)
        /\ n.tt.t = "Tree" =>
             \A i \in DOMAIN n.tt.kids :
               /\ n.span[1] <= n.tt.kids[i].span[1]
               /\ n.tt.kids[i].span[2] <= n.span[2]

---------------------------------------------------------------------------
(* Integers and adjacency                                                  *)

\* C3: `123` lexes as Integer(123, None), `123i8` as Integer(123, Some(I8))
\* and `123i8x` as Integer(123, None) followed by Identifier("i8x") (each
\* on a line of its own).
C3_IntegerSuffix ==
    Done =>
      /\ src = <<"1", "2", "3", "\n">> =>
           result.ok /\ Bare(result.tts) = <<TokInt(U64(123), "None")>>
      /\ src = <<"1", "2", "3", "i", "8", "\n">> =>
           result.ok /\ Bare(result.tts) = <<TokInt(U64(123), "I8")>>
      /\ src = <<"1", "2", "3", "i", "8", "x", "\n">> =>
           /\ result.ok
           /\ Bare(result.tts) =
                <<TokInt(U64(123), "None"), TokIdent(<<"i", "8", "x">>)>>

\* where a bare token starts: an identifier or integer matches and the
\* character before is not part of one
BareStarts(s) ==
    {p \in 1..Len(s) :
        Single(s, p).st = "ok" /\ ~IsIdentCont(At(s, p - 1))}

\* C4: every bare token is accepted by exactly one of `sequential` and
\* `last`, with the token value unchanged, whatever follows it (another
\* token, end of line, end of input); in `f x`, f is sequential, x last.
C4_AdjacencyTotal ==
    pc # "start" =>
      /\ \A p \in BareStarts(src) :
           /\ (Sequential(src, p).st = "ok") # (Last(src, p).st = "ok")
           /\ Sequential(src, p).st = "ok" =>
                Sequential(src, p) = Single(src, p)
           /\ Last(src, p).st = "ok" => Last(src, p) = Single(src, p)
      /\ src = <<"f", " ", "x">> =>
           Sequential(src, 1).st = "ok" /\ Last(src, 3).st = "ok"

RECURSIVE Closes(_, _, _)
\* whether the group open at depth d before position p is closed later
Closes(s, p, d) ==
    IF d = 0 THEN TRUE
    ELSE IF p > Len(s) THEN FALSE
    ELSE Closes(s, p + 1,
                CASE s[p] = "(" -> d + 1 [] s[p] = ")" -> d - 1
                  [] OTHER -> d)

\* a source of plain code (no string, no comment) with a '(' that no ')'
\* matches
OpenGroup(s) ==
    /\ \A i \in 1..Len(s) : s[i] \notin {"\"", "/"}
    /\ \E i \in 1..Len(s) : s[i] = "(" /\ ~Closes(s, i + 1, 1)

\* C6: for every source with a '(' whose ')' is missing, parse returns an
\* error and no tree.
C6_UnclosedGroupRejected ==
    (pc \in {"done", "panic"} /\ OpenGroup(src)) => Rejected

\* the source starts with a digit run above u64::MAX
OverflowFirst(s) ==
    TextInt(s, 1).st = "ok" /\ ~FromStr(TextInt(s, 1).val).ok

\* C7: a digit run that does not fit in a u64 makes parse return an error;
\* the run of the lexer does not abort.
C7_OverflowReported ==
    (pc \in {"done", "panic"} /\ OverflowFirst(src)) => Rejected

---------------------------------------------------------------------------
(* Strings                                                                 *)

Interpolations ==
    {n \in AllNodes(result.tts) : IsTree(n, "Interpolation")}

SpliceExample ==
    <<"\"", "a", "$", "{", "1", "+", "2", "}", "b", "\"">>

\* what the token-tree grammar, padded and repeated, lexes right after the
\* "${" of the splice node c
SpliceBody(c) == PaddedTts(src, c.span[1] + 3, <<>>)

\* C5: in every accepted source, a string is one Interpolation tree whose
\* children are StringLiteral leaves and Curly trees laid end to end in
\* source order between the quotes, each Curly standing on a `${...}` and
\* holding what the full token-tree grammar lexes up to the `}`;
\* "a${1+2}b" gives [StringLiteral a, Curly [1, +, 2], StringLiteral b]
\* and "" gives no children.
C5_StringScanning ==
    Done =>
      /\ src = SpliceExample =>
           /\ result.ok
           /\ Bare(result.tts) =
                <<Tree("Interpolation",
                       <<TokStringLiteral(<<"a">>),
                         Tree("Curly", <<TokInt(U64(1), "None"),
                                         TokOperator("Add"),
                                         TokInt(U64(2), "None")>>),
                         TokStringLiteral(<<"b">>)>>)>>
      /\ src = <<"\"", "\"">> =>
           result.ok /\ Bare(result.tts) = <<Tree("Interpolation", <<>>)>>
      /\ result.ok =>
           \A n \in Interpolations :
             LET kids == n.tt.kids
                 last == Len(kids)
             IN  /\ src[n.span[1] + 1] = "\"" /\ src[n.span[2]] = "\""
                 /\ last = 0 => n.span[2] = n.span[1] + 2
                 /\ last > 0 =>
                      /\ kids[1].span[1] = n.span[1] + 1
                      /\ kids[last].span[2] = n.span[2] - 1
                 /\ \A i \in 1..last :
                      /\ IsStringLiteral(kids[i]) \/ IsTree(kids[i], "Curly")
                      /\ i < last => kids[i].span[2] = kids[i + 1].span[1]
                      /\ IsTree(kids[i], "Curly") <=>
                           /\ src[kids[i].span[1] + 1] = "$"
                           /\ src[kids[i].span[1] + 2] = "{"
                      /\ IsTree(kids[i], "Curly") =>
                           SpliceBody(kids[i]) =
                             Ok(kids[i].span[2], kids[i].tt.kids)

\* the splice example has been lexed and accepted
C5_Witness == Accepted /\ src = SpliceExample

\* C8: in every returned tree no Interpolation node has two StringLiteral
\* children next to each other.
C8_NoAdjacentLiterals ==
    Accepted =>
      \A n \in Interpolations :
        \A i \in 1..(Len(n.tt.kids) - 1) :
          ~(IsStringLiteral(n.tt.kids[i]) /\ IsStringLiteral(n.tt.kids[i + 1]))

\* an accepted string whose first fragment merges a plain character, a
\* decoded escape and a bare '$', followed by a splice and another fragment
C8_Witness ==
    /\ Accepted
    /\ \E n \in Interpolations :
         /\ Len(n.tt.kids) = 3
         /\ IsStringLiteral(n.tt.kids[1])
         /\ n.tt.kids[1].tt.s = <<"a", "\n", "$", "b">>
         /\ IsTree(n.tt.kids[2], "Curly")
         /\ IsStringLiteral(n.tt.kids[3])
===========================================================================
